---- MODULE Spec2Model ----
(***************************************************************************)
(* One run of the POST "/" handler of src/src/index.ts: signature check,   *)
(* acknowledgement, catalog fetch, tool selection, capability execution    *)
(* and the relay of the streamed completion to the response.  A step of    *)
(* the model is the code between two awaits of the handler.                *)
(***************************************************************************)
EXTENDS Integers, Sequences, FiniteSets, TLC

\* ---------------------------------------------------------------- bounds
MaxConv == 2
MaxChunks == 2
MaxToolCalls == 2

\* ------------------------------------------------------------ input data
Undefined == "undefined"

Msgs ==
  { [role |-> "user", content |-> <<"using gpt-4o: say hi">>],
    [role |-> "assistant", content |-> <<"hello">>] }

RECURSIVE SeqsUpTo(_, _)
SeqsUpTo(S, n) ==
  IF n = 0 THEN { <<>> }
  ELSE LET shorter == SeqsUpTo(S, n - 1)
       IN  shorter \cup { Append(s, x) : s \in shorter, x \in S }

Conversations == SeqsUpTo(Msgs, MaxConv)

Requests == [ token : {Undefined, "ghu_token"}, messages : Conversations ]

CatalogModel ==
  [ friendly_name |-> "OpenAI GPT-4o", name |-> "GPT-4o", publisher |-> "OpenAI",
    model_registry |-> "azure-openai", summary |-> "multimodal model" ]

Catalogs == { <<>>, <<CatalogModel>> }

Chunks == { "c1", "c2" }

NoFail == 0 - 1

Streams ==
  UNION { { [chunks |-> cs, failAt |-> k] : k \in NoFail .. Len(cs) } :
            cs \in SeqsUpTo(Chunks, MaxChunks) }

\* ------------------------------------------------------ response channel
NewRes ==
  [ statusCode |-> 200, headersSent |-> FALSE, wireStatus |-> 0,
    body |-> <<>>, ended |-> FALSE, lateOps |-> 0 ]

ResStatus(r, code) ==
  IF r.ended THEN [r EXCEPT !.lateOps = @ + 1, !.statusCode = code]
  ELSE [r EXCEPT !.statusCode = code]

ResWrite(r, frame) ==
  IF r.ended THEN [r EXCEPT !.lateOps = @ + 1]
  ELSE [r EXCEPT !.headersSent = TRUE,
                 !.wireStatus = IF r.headersSent THEN @ ELSE r.statusCode,
                 !.body = Append(@, frame)]

ResEnd(r, data) ==
  IF r.ended THEN [r EXCEPT !.lateOps = @ + 1]
  ELSE [r EXCEPT !.headersSent = TRUE,
                 !.wireStatus = IF r.headersSent THEN @ ELSE r.statusCode,
                 !.body = IF data = <<>> THEN @ ELSE Append(@, data),
                 !.ended = TRUE]

ResSend(r, data) == ResEnd(r, data)

createAckEvent == <<"ack">>

JSONStringify(chunk) == <<"json", chunk>>

ChunkStr(chunk) == <<"data: ">> \o JSONStringify(chunk) \o <<"\n\n">>

DoneStr == <<"data: ", "[DONE]", "\n\n">>

Unauthorized == <<"Unauthorized">>

\* ------------------------------------------------------------- selector
DefaultModel == "gpt-4"

RECURSIVE StringifyModels(_)
StringifyModels(ms) ==
  IF ms = <<>> THEN <<>>
  ELSE << "{", Head(ms).friendly_name, Head(ms).name, Head(ms).publisher,
          Head(ms).model_registry, Head(ms).summary, "}" >>
       \o StringifyModels(Tail(ms))

SystemMessage(ms) ==
  [ role |-> "system",
    content |-> << "You are an extension of GitHub Copilot, built to interact with GitHub Models.",
                   "GitHub Models is a language model playground",
                   "Here is a list of some of the models available to the user:",
                   "<-- LIST OF MODELS -->" >>
                \o StringifyModels(ms)
                \o << "<-- END OF LIST OF MODELS -->" >> ]

toolCallMessages(ms, messages) == (<<SystemMessage(ms)>> \o messages) \o messages

functions == << "list_models", "describe_model", "execute_model", "recommend_model" >>

SelectorRequest(ms, messages) ==
  [ model |-> DefaultModel, messages |-> toolCallMessages(ms, messages),
    tool_choice |-> "auto", tools |-> functions ]

\* The raw argument texts a tool call may carry, and what JSON.parse makes of them.
ArgsSayHi == "{\"model\":\"gpt-4o\",\"instruction\":\"say hi\"}"
ArgsNoSuchModel == "{\"model\":\"no-such-model\"}"
ArgsBye == "{\"model\":\"phi-3\",\"instruction\":\"bye\"}"
ArgsMalformed == "{\"model\":"

RawArguments == { ArgsSayHi, ArgsNoSuchModel, ArgsMalformed }

JSONParse(text) ==
  CASE text = ArgsSayHi -> [ok |-> TRUE, model |-> "gpt-4o", instruction |-> "say hi"]
    [] text = ArgsNoSuchModel -> [ok |-> TRUE, model |-> "no-such-model", instruction |-> Undefined]
    [] text = ArgsBye -> [ok |-> TRUE, model |-> "phi-3", instruction |-> "bye"]
    [] OTHER -> [ok |-> FALSE, model |-> Undefined, instruction |-> Undefined]

ToolNames == { functions[i] : i \in DOMAIN functions } \cup { "delete_model" }

FirstCalls ==
  { [function |-> <<>>] } \cup
  { [function |-> <<[name |-> n, arguments |-> a]>>] : n \in ToolNames, a \in RawArguments }

LaterCalls ==
  { [function |-> <<[name |-> "execute_model", arguments |-> ArgsBye]>>],
    [function |-> <<[name |-> "delete_model", arguments |-> ArgsMalformed]>>] }

ToolCallLists ==
  { <<first>> \o rest : first \in FirstCalls, rest \in SeqsUpTo(LaterCalls, MaxToolCalls - 1) }

\* The shapes of a chat completion: no choice, a choice without a message, a
\* message without tool_calls, a message with an empty or non-empty tool_calls.
SelectorResponses ==
  { [choices |-> <<>>], [choices |-> <<[message |-> <<>>]>>] } \cup
  { [choices |-> <<[message |-> <<[has_tool_calls |-> FALSE, tool_calls |-> <<>>]>>]>>],
    [choices |-> <<[message |-> <<[has_tool_calls |-> TRUE, tool_calls |-> <<>>]>>]>>] } \cup
  { [choices |-> <<[message |-> <<[has_tool_calls |-> TRUE, tool_calls |-> l]>>]>>] :
      l \in ToolCallLists }

\* The condition of the "No tool call found" branch, evaluated left to right as
\* JavaScript does: reading .function of tool_calls[0] when the list is empty
\* throws a TypeError.
NoToolCallTest(tc) ==
  IF tc.choices = <<>> THEN "true"
  ELSE IF tc.choices[1].message = <<>> THEN "true"
  ELSE IF ~tc.choices[1].message[1].has_tool_calls THEN "true"
  ELSE IF tc.choices[1].message[1].tool_calls = <<>> THEN "TypeError"
  ELSE IF tc.choices[1].message[1].tool_calls[1].function = <<>> THEN "true"
  ELSE "false"

\* functionToCall taking the last offered tool call instead of the first.
functionToCallLast(tc) ==
  tc.choices[1].message[1].tool_calls[Len(tc.choices[1].message[1].tool_calls)].function[1]

functionToCall(tc) == tc.choices[1].message[1].tool_calls[1].function[1]

funcClass(name) == { i \in DOMAIN functions : functions[i] = name }

\* ----------------------------------------------------------- capabilities
Failure == [ok |-> FALSE, model |-> "", messages |-> <<>>]

IdentityMessage ==
  [ role |-> "system",
    content |-> <<"Begin your response by telling the user the name of your language model.">> ]

\* executeModel appending its user message to the conversation it was given.
executeModelKeepingConversation(messages, args) ==
  [ ok |-> TRUE, model |-> args.model,
    messages |-> (<< IdentityMessage >> \o messages)
                 \o << [role |-> "user", content |-> <<args.instruction>>] >> ]

executeModel(messages, args) ==
  [ ok |-> TRUE, model |-> args.model,
    messages |-> << IdentityMessage, [role |-> "user", content |-> <<args.instruction>>] >> ]

Lower(s) == IF s = "GPT-4o" THEN "gpt-4o" ELSE s

describeModel(ms, args) ==
  IF \E i \in DOMAIN ms : Lower(ms[i].name) = Lower(args.model)
  THEN { Failure,
         [ ok |-> TRUE, model |-> "gpt-4o-mini",
           messages |-> << [role |-> "system", content |-> <<"Describe the model", args.model>>] >> ] }
  ELSE { Failure }

listModels(ms) ==
  { Failure,
    [ ok |-> TRUE, model |-> "gpt-4o-mini",
      messages |-> << [role |-> "system",
                       content |-> <<"Recite the catalog">> \o StringifyModels(ms)] >> ] }

recommendModel(ms, messages) ==
  { Failure,
    [ ok |-> TRUE, model |-> "gpt-4o-mini",
      messages |-> << [role |-> "system",
                       content |-> <<"Recommend a model">> \o StringifyModels(ms)] >>
                   \o messages ] }

\* The outcomes of func.execute(payload.messages, args) for the class found.
Execute(name, ms, messages, args) ==
  CASE name = "execute_model" -> { executeModel(messages, args) }
    [] name = "describe_model" -> describeModel(ms, args)
    [] name = "list_models" -> listModels(ms)
    [] OTHER -> recommendModel(ms, messages)

FallbackRequest(messages) ==
  [ client |-> "capi", model |-> DefaultModel, messages |-> messages ]

InferenceRequest(r) ==
  [ client |-> "inference", model |-> r.model, messages |-> r.messages ]

\* ------------------------------------------------------------------ state
VARIABLES
  pc,               \* the await the handler is suspended at; "done" once it has
                    \* returned; "unhandled" once an exception has escaped it
                    \* (the handler has no further step and never ends res)
  req,              \* the inbound request: X-GitHub-Token and payload.messages
  verifyResult,     \* "pending", "threw", "invalid" or "valid"
  res,              \* the response
  models,           \* result of modelsAPI.listModels()
  toolCaller,       \* <<>> or <<the selector's completion>>
  functionCallRes,  \* result of func.execute
  stream,           \* the upstream chunk stream being relayed
  pos,              \* chunks of the stream consumed so far
  issued,           \* remote calls issued, in order
  completed,        \* remote calls that returned or failed, in order
  selectorReqs,     \* selector requests sent
  execCalls,        \* capability handler invocations
  streamReqs        \* streaming completion requests sent

vars == << pc, req, verifyResult, res, models, toolCaller, functionCallRes, stream, pos,
           issued, completed, selectorReqs, execCalls, streamReqs >>

payload == [messages |-> req.messages]

apiKey == req.token

Init ==
  /\ pc = "verify"
  /\ req \in Requests
  /\ verifyResult = "pending"
  /\ res = NewRes
  /\ models = <<>>
  /\ toolCaller = <<>>
  /\ functionCallRes = Failure
  /\ stream = [chunks |-> <<>>, failAt |-> NoFail]
  /\ pos = 0
  /\ issued = <<>>
  /\ completed = <<>>
  /\ selectorReqs = <<>>
  /\ execCalls = <<>>
  /\ streamReqs = <<>>

Returned(call, ok) == Append(completed, [call |-> call, ok |-> ok])

\* ---------------------------------------------------------- verification
\* verifyAndParseRequest throws: 401 "Unauthorized".
VerifyThrows ==
  /\ pc = "verify"
  /\ verifyResult' = "threw"
  /\ res' = ResEnd(ResStatus(res, 401), Unauthorized)
  /\ pc' = "done"
  /\ UNCHANGED << req, models, toolCaller, functionCallRes, stream, pos,
                  issued, completed, selectorReqs, execCalls, streamReqs >>

\* VerifyInvalid without the return: the handler goes on to the acknowledgement.
VerifyInvalidFallsThrough ==
  /\ pc = "verify"
  /\ verifyResult' = "invalid"
  /\ res' = ResWrite(ResSend(ResStatus(res, 401), Unauthorized), createAckEvent)
  /\ issued' = Append(issued, "catalog")
  /\ pc' = "listModels"
  /\ UNCHANGED << req, models, toolCaller, functionCallRes, stream, pos,
                  completed, selectorReqs, execCalls, streamReqs >>

\* isValidRequest is false: 401 "Unauthorized".
VerifyInvalid ==
  /\ pc = "verify"
  /\ verifyResult' = "invalid"
  /\ res' = ResSend(ResStatus(res, 401), Unauthorized)
  /\ pc' = "done"
  /\ UNCHANGED << req, models, toolCaller, functionCallRes, stream, pos,
                  issued, completed, selectorReqs, execCalls, streamReqs >>

\* VerifiedNoApiKey without the return: the handler goes on to the acknowledgement.
VerifiedNoApiKeyFallsThrough ==
  /\ pc = "verify"
  /\ verifyResult' = "valid"
  /\ apiKey = Undefined
  /\ res' = ResWrite(ResEnd(ResStatus(res, 400), <<>>), createAckEvent)
  /\ issued' = Append(issued, "catalog")
  /\ pc' = "listModels"
  /\ UNCHANGED << req, models, toolCaller, functionCallRes, stream, pos,
                  completed, selectorReqs, execCalls, streamReqs >>

\* VerifiedNoApiKey with the token test placed after the acknowledgement write.
VerifiedNoApiKeyAfterAck ==
  /\ pc = "verify"
  /\ verifyResult' = "valid"
  /\ apiKey = Undefined
  /\ res' = ResEnd(ResStatus(ResWrite(res, createAckEvent), 400), <<>>)
  /\ pc' = "done"
  /\ UNCHANGED << req, models, toolCaller, functionCallRes, stream, pos,
                  issued, completed, selectorReqs, execCalls, streamReqs >>

\* Signature verified but no X-GitHub-Token: 400.
VerifiedNoApiKey ==
  /\ pc = "verify"
  /\ verifyResult' = "valid"
  /\ apiKey = Undefined
  /\ res' = ResEnd(ResStatus(res, 400), <<>>)
  /\ pc' = "done"
  /\ UNCHANGED << req, models, toolCaller, functionCallRes, stream, pos,
                  issued, completed, selectorReqs, execCalls, streamReqs >>

\* VerifiedAck without the acknowledgement write.
VerifiedWithoutAck ==
  /\ pc = "verify"
  /\ verifyResult' = "valid"
  /\ apiKey # Undefined
  /\ issued' = Append(issued, "catalog")
  /\ pc' = "listModels"
  /\ UNCHANGED << req, res, models, toolCaller, functionCallRes, stream, pos,
                  completed, selectorReqs, execCalls, streamReqs >>

\* Signature verified, token present: write the acknowledgement and start
\* the catalog fetch.
VerifiedAck ==
  /\ pc = "verify"
  /\ verifyResult' = "valid"
  /\ apiKey # Undefined
  /\ res' = ResWrite(res, createAckEvent)
  /\ issued' = Append(issued, "catalog")
  /\ pc' = "listModels"
  /\ UNCHANGED << req, models, toolCaller, functionCallRes, stream, pos,
                  completed, selectorReqs, execCalls, streamReqs >>

\* ---------------------------------------------------------------- catalog
\* modelsAPI.listModels() rejects: nothing catches it.
ListModelsFails ==
  /\ pc = "listModels"
  /\ completed' = Returned("catalog", FALSE)
  /\ pc' = "unhandled"
  /\ UNCHANGED << req, verifyResult, res, models, toolCaller, functionCallRes, stream, pos,
                  issued, selectorReqs, execCalls, streamReqs >>

\* modelsAPI.listModels() resolves: build the selector prompt and send it.
ListModelsReturns ==
  /\ pc = "listModels"
  /\ \E ms \in Catalogs :
       /\ models' = ms
       /\ selectorReqs' = Append(selectorReqs, SelectorRequest(ms, payload.messages))
  /\ completed' = Returned("catalog", TRUE)
  /\ issued' = Append(issued, "selector")
  /\ pc' = "toolCall"
  /\ UNCHANGED << req, verifyResult, res, toolCaller, functionCallRes, stream, pos,
                  execCalls, streamReqs >>

\* --------------------------------------------------------------- selector
\* ToolCallFails swallowing the error and going on to the fallback stream.
ToolCallFailsThenFallback ==
  /\ pc = "toolCall"
  /\ completed' = Returned("selector", FALSE)
  /\ streamReqs' = Append(streamReqs, FallbackRequest(payload.messages))
  /\ issued' = Append(issued, "stream")
  /\ pc' = "fallbackCreate"
  /\ UNCHANGED << req, verifyResult, res, models, toolCaller, functionCallRes, stream, pos,
                  selectorReqs, execCalls >>

\* The selector call rejects: nothing catches it.
ToolCallFails ==
  /\ pc = "toolCall"
  /\ completed' = Returned("selector", FALSE)
  /\ pc' = "unhandled"
  /\ UNCHANGED << req, verifyResult, res, models, toolCaller, functionCallRes, stream, pos,
                  issued, selectorReqs, execCalls, streamReqs >>

\* The branch test itself throws (tool_calls is an empty list).
ToolCallTypeError ==
  /\ pc = "toolCall"
  /\ \E tc \in SelectorResponses :
       /\ NoToolCallTest(tc) = "TypeError"
       /\ toolCaller' = <<tc>>
  /\ completed' = Returned("selector", TRUE)
  /\ pc' = "unhandled"
  /\ UNCHANGED << req, verifyResult, res, models, functionCallRes, stream, pos,
                  issued, selectorReqs, execCalls, streamReqs >>

\* "No tool call found": call the default model with the original messages.
ToolCallNone ==
  /\ pc = "toolCall"
  /\ \E tc \in SelectorResponses :
       /\ NoToolCallTest(tc) = "true"
       /\ toolCaller' = <<tc>>
  /\ completed' = Returned("selector", TRUE)
  /\ streamReqs' = Append(streamReqs, FallbackRequest(payload.messages))
  /\ issued' = Append(issued, "stream")
  /\ pc' = "fallbackCreate"
  /\ UNCHANGED << req, verifyResult, res, models, functionCallRes, stream, pos,
                  selectorReqs, execCalls >>

\* A tool call whose arguments JSON.parse rejects: thrown outside the try.
ToolCallBadArguments ==
  /\ pc = "toolCall"
  /\ \E tc \in SelectorResponses :
       /\ NoToolCallTest(tc) = "false"
       /\ ~JSONParse(functionToCall(tc).arguments).ok
       /\ toolCaller' = <<tc>>
  /\ completed' = Returned("selector", TRUE)
  /\ pc' = "unhandled"
  /\ UNCHANGED << req, verifyResult, res, models, functionCallRes, stream, pos,
                  issued, selectorReqs, execCalls, streamReqs >>

\* A tool call naming no registered function: "Unknown function", caught, 500.
ToolCallUnknownFunction ==
  /\ pc = "toolCall"
  /\ \E tc \in SelectorResponses :
       /\ NoToolCallTest(tc) = "false"
       /\ JSONParse(functionToCall(tc).arguments).ok
       /\ funcClass(functionToCall(tc).name) = {}
       /\ toolCaller' = <<tc>>
  /\ completed' = Returned("selector", TRUE)
  /\ res' = ResEnd(ResStatus(res, 500), <<>>)
  /\ pc' = "done"
  /\ UNCHANGED << req, verifyResult, models, functionCallRes, stream, pos,
                  issued, selectorReqs, execCalls, streamReqs >>

\* A tool call naming a registered function: invoke its handler.
ToolCallExecute ==
  /\ pc = "toolCall"
  /\ \E tc \in SelectorResponses :
       /\ NoToolCallTest(tc) = "false"
       /\ JSONParse(functionToCall(tc).arguments).ok
       /\ funcClass(functionToCall(tc).name) # {}
       /\ toolCaller' = <<tc>>
       /\ execCalls' = Append(execCalls,
                              [ name |-> functionToCall(tc).name,
                                messages |-> payload.messages,
                                args |-> JSONParse(functionToCall(tc).arguments) ])
  /\ completed' = Returned("selector", TRUE)
  /\ issued' = Append(issued, "execute")
  /\ pc' = "execute"
  /\ UNCHANGED << req, verifyResult, res, models, functionCallRes, stream, pos,
                  selectorReqs, streamReqs >>

\* ----------------------------------------------------- capability handler
ExecuteOutcomes ==
  Execute(execCalls[Len(execCalls)].name, models,
          execCalls[Len(execCalls)].messages, execCalls[Len(execCalls)].args)

\* func.execute rejects: caught, 500.
ExecuteFails ==
  /\ pc = "execute"
  /\ Failure \in ExecuteOutcomes
  /\ completed' = Returned("execute", FALSE)
  /\ res' = ResEnd(ResStatus(res, 500), <<>>)
  /\ pc' = "done"
  /\ UNCHANGED << req, verifyResult, models, toolCaller, functionCallRes, stream, pos,
                  issued, selectorReqs, execCalls, streamReqs >>

\* ExecuteReturns streaming the original conversation from the default model.
ExecuteReturnsIgnoringResult ==
  /\ pc = "execute"
  /\ \E r \in ExecuteOutcomes :
       /\ r.ok
       /\ functionCallRes' = r
       /\ streamReqs' = Append(streamReqs, FallbackRequest(payload.messages))
  /\ completed' = Returned("execute", TRUE)
  /\ issued' = Append(issued, "stream")
  /\ pc' = "inferenceCreate"
  /\ UNCHANGED << req, verifyResult, res, models, toolCaller, stream, pos,
                  selectorReqs, execCalls >>

\* func.execute resolves: request the streamed completion it describes.
ExecuteReturns ==
  /\ pc = "execute"
  /\ \E r \in ExecuteOutcomes :
       /\ r.ok
       /\ functionCallRes' = r
       /\ streamReqs' = Append(streamReqs, InferenceRequest(r))
  /\ completed' = Returned("execute", TRUE)
  /\ issued' = Append(issued, "stream")
  /\ pc' = "inferenceCreate"
  /\ UNCHANGED << req, verifyResult, res, models, toolCaller, stream, pos,
                  selectorReqs, execCalls >>

\* ---------------------------------------------------------- fallback relay
\* The fallback completions.create rejects: nothing catches it.
FallbackCreateFails ==
  /\ pc = "fallbackCreate"
  /\ completed' = Returned("stream", FALSE)
  /\ pc' = "unhandled"
  /\ UNCHANGED << req, verifyResult, res, models, toolCaller, functionCallRes, stream, pos,
                  issued, selectorReqs, execCalls, streamReqs >>

FallbackCreateReturns ==
  /\ pc = "fallbackCreate"
  /\ stream' \in Streams
  /\ pos' = 0
  /\ completed' = Returned("stream", TRUE)
  /\ pc' = "fallbackStream"
  /\ UNCHANGED << req, verifyResult, res, models, toolCaller, functionCallRes,
                  issued, selectorReqs, execCalls, streamReqs >>

\* One iteration of the for-await loop: forward the next chunk.
FallbackChunk ==
  /\ pc = "fallbackStream"
  /\ pos < Len(stream.chunks)
  /\ pos # stream.failAt
  /\ res' = ResWrite(res, ChunkStr(stream.chunks[pos + 1]))
  /\ pos' = pos + 1
  /\ UNCHANGED << pc, req, verifyResult, models, toolCaller, functionCallRes, stream,
                  issued, completed, selectorReqs, execCalls, streamReqs >>

\* FallbackDone ending the response without the sentinel.
FallbackDoneWithoutSentinel ==
  /\ pc = "fallbackStream"
  /\ pos = Len(stream.chunks)
  /\ stream.failAt = NoFail
  /\ res' = ResEnd(res, <<>>)
  /\ pc' = "done"
  /\ UNCHANGED << req, verifyResult, models, toolCaller, functionCallRes, stream, pos,
                  issued, completed, selectorReqs, execCalls, streamReqs >>

\* The stream is exhausted: write the sentinel and end the response.
FallbackDone ==
  /\ pc = "fallbackStream"
  /\ pos = Len(stream.chunks)
  /\ stream.failAt = NoFail
  /\ res' = ResEnd(ResWrite(res, DoneStr), <<>>)
  /\ pc' = "done"
  /\ UNCHANGED << req, verifyResult, models, toolCaller, functionCallRes, stream, pos,
                  issued, completed, selectorReqs, execCalls, streamReqs >>

\* The stream throws inside the loop: nothing catches it.
FallbackStreamError ==
  /\ pc = "fallbackStream"
  /\ pos = stream.failAt
  /\ pc' = "unhandled"
  /\ UNCHANGED << req, verifyResult, res, models, toolCaller, functionCallRes, stream, pos,
                  issued, completed, selectorReqs, execCalls, streamReqs >>

\* -------------------------------------------------------- capability relay
\* modelsAPI.inference completions.create rejects: caught, 500.
InferenceCreateFails ==
  /\ pc = "inferenceCreate"
  /\ completed' = Returned("stream", FALSE)
  /\ res' = ResEnd(ResStatus(res, 500), <<>>)
  /\ pc' = "done"
  /\ UNCHANGED << req, verifyResult, models, toolCaller, functionCallRes, stream, pos,
                  issued, selectorReqs, execCalls, streamReqs >>

InferenceCreateReturns ==
  /\ pc = "inferenceCreate"
  /\ stream' \in Streams
  /\ pos' = 0
  /\ completed' = Returned("stream", TRUE)
  /\ pc' = "inferenceStream"
  /\ UNCHANGED << req, verifyResult, res, models, toolCaller, functionCallRes,
                  issued, selectorReqs, execCalls, streamReqs >>

InferenceChunk ==
  /\ pc = "inferenceStream"
  /\ pos < Len(stream.chunks)
  /\ pos # stream.failAt
  /\ res' = ResWrite(res, ChunkStr(stream.chunks[pos + 1]))
  /\ pos' = pos + 1
  /\ UNCHANGED << pc, req, verifyResult, models, toolCaller, functionCallRes, stream,
                  issued, completed, selectorReqs, execCalls, streamReqs >>

InferenceDone ==
  /\ pc = "inferenceStream"
  /\ pos = Len(stream.chunks)
  /\ stream.failAt = NoFail
  /\ res' = ResEnd(ResWrite(res, DoneStr), <<>>)
  /\ pc' = "done"
  /\ UNCHANGED << req, verifyResult, models, toolCaller, functionCallRes, stream, pos,
                  issued, completed, selectorReqs, execCalls, streamReqs >>

\* InferenceStreamError that logs the error and leaves the response open.
InferenceStreamErrorWithoutEnd ==
  /\ pc = "inferenceStream"
  /\ pos = stream.failAt
  /\ res' = ResStatus(res, 500)
  /\ pc' = "done"
  /\ UNCHANGED << req, verifyResult, models, toolCaller, functionCallRes, stream, pos,
                  issued, completed, selectorReqs, execCalls, streamReqs >>

\* The stream throws inside the loop: caught, 500.
InferenceStreamError ==
  /\ pc = "inferenceStream"
  /\ pos = stream.failAt
  /\ res' = ResEnd(ResStatus(res, 500), <<>>)
  /\ pc' = "done"
  /\ UNCHANGED << req, verifyResult, models, toolCaller, functionCallRes, stream, pos,
                  issued, completed, selectorReqs, execCalls, streamReqs >>

Next ==
  \/ VerifyThrows \/ VerifyInvalid \/ VerifiedNoApiKey \/ VerifiedAck
  \/ ListModelsFails \/ ListModelsReturns
  \/ ToolCallFails \/ ToolCallTypeError \/ ToolCallNone
  \/ ToolCallBadArguments \/ ToolCallUnknownFunction \/ ToolCallExecute
  \/ ExecuteFails \/ ExecuteReturns
  \/ FallbackCreateFails \/ FallbackCreateReturns
  \/ FallbackChunk \/ FallbackDone \/ FallbackStreamError
  \/ InferenceCreateFails \/ InferenceCreateReturns
  \/ InferenceChunk \/ InferenceDone \/ InferenceStreamError

Spec == Init /\ [][Next]_vars

\* ================================================================ claims
AckFrames == { i \in DOMAIN res.body : res.body[i] = createAckEvent }

\* Frames derived from the model's output: chunk frames and the sentinel.
ModelFrames == { i \in DOMAIN res.body : res.body[i][1] = "data: " }

SelectorReturned == toolCaller # <<>>

ToolCalls(tc) ==
  IF tc.choices = <<>> THEN <<>>
  ELSE IF tc.choices[1].message = <<>> THEN <<>>
  ELSE tc.choices[1].message[1].tool_calls

Succeeded(call) == \E i \in DOMAIN completed : completed[i] = [call |-> call, ok |-> TRUE]

Failed(call) == \E i \in DOMAIN completed : completed[i] = [call |-> call, ok |-> FALSE]

AckedFirst ==
  /\ Cardinality(AckFrames) = 1
  /\ res.body[1] = createAckEvent
  /\ \A i \in ModelFrames : i > 1

\* C1 as stated: every request that passes signature verification gets exactly
\* one acknowledgement frame, ahead of every model-derived frame and of the
\* completion of every remote call.
C1_AckForEveryVerifiedRequest ==
  /\ verifyResult = "valid" => AckedFirst
  /\ (completed # <<>> \/ ModelFrames # {}) => AckedFirst

\* C1 amended: every request that passes signature verification and carries an
\* access token gets exactly one acknowledgement frame, ahead of every
\* model-derived frame and of the completion of every remote call.
C1_AckForEveryVerifiedRequestWithToken ==
  /\ (verifyResult = "valid" /\ apiKey # Undefined) => AckedFirst
  /\ (completed # <<>> \/ ModelFrames # {}) => AckedFirst

C1_Witness ==
  /\ verifyResult = "valid"
  /\ apiKey # Undefined
  /\ Succeeded("stream")
  /\ Cardinality(ModelFrames) >= 2

\* C2: whenever the selector's response carries no tool call, the streaming
\* request is issued with the original messages and the default model, and no
\* capability handler is invoked.
C2_NoToolCallStreamsOriginal ==
  (SelectorReturned /\ ToolCalls(toolCaller[1]) = <<>>) =>
     /\ streamReqs = << [client |-> "capi", model |-> "gpt-4", messages |-> req.messages] >>
     /\ execCalls = <<>>

FirstToolCall == ToolCalls(toolCaller[1])[1]

KnownToolSelected ==
  /\ SelectorReturned
  /\ ToolCalls(toolCaller[1]) # <<>>
  /\ FirstToolCall.function # <<>>
  /\ JSONParse(FirstToolCall.function[1].arguments).ok
  /\ \E i \in DOMAIN functions : functions[i] = FirstToolCall.function[1].name

HandlerResults ==
  Execute(FirstToolCall.function[1].name, models, req.messages,
          JSONParse(FirstToolCall.function[1].arguments))

\* C3: when the selected tool is a registered capability whose arguments parse,
\* its handler is executed exactly once, and once it has succeeded the streaming
\* request carries the model and messages the handler returned and goes to the
\* inference client, not the original conversation to the default model.
C3_KnownToolStreamsHandlerResult ==
  KnownToolSelected =>
     /\ Len(execCalls) = 1
     /\ Succeeded("execute") =>
          /\ functionCallRes \in HandlerResults
          /\ functionCallRes.ok
          /\ streamReqs = << [ client |-> "inference", model |-> functionCallRes.model,
                               messages |-> functionCallRes.messages ] >>

C3_Witness ==
  /\ KnownToolSelected
  /\ Succeeded("execute")
  /\ FirstToolCall.function[1].name = "execute_model"
  /\ streamReqs[1].model = "gpt-4o"
  /\ pc = "inferenceStream"

ExpectedFrames(n) == [ i \in 1 .. n |-> <<"data: ", "json", stream.chunks[i], "\n\n">> ]

Sentinel == <<"data: ", "[DONE]", "\n\n">>

\* C4: on both paths, while a stream is relayed the response holds the
\* acknowledgement followed by the chunks consumed so far, one frame each in
\* emission order; when a stream of N chunks completes without error the
\* response is the acknowledgement, the N chunk frames, the [DONE] sentinel as
\* last write, and then it is ended.
C4_ChunksRelayedInOrderThenDone ==
  /\ pc \in {"fallbackStream", "inferenceStream"} =>
       /\ res.body = <<createAckEvent>> \o ExpectedFrames(pos)
       /\ ~res.ended
  /\ (pc = "done" /\ Succeeded("stream") /\ stream.failAt = NoFail) =>
       /\ res.body = (<<createAckEvent>> \o ExpectedFrames(Len(stream.chunks))) \o <<Sentinel>>
       /\ res.ended
       /\ res.lateOps = 0

C4_Witness ==
  /\ pc = "done"
  /\ Succeeded("stream")
  /\ streamReqs[1].client = "capi"
  /\ stream.failAt = NoFail
  /\ stream.chunks = <<"c2", "c1">>

\* C5: when the selected capability's handler fails, the caller sees a server
\* error status, no chunk or [DONE] frame is written, no streaming request is
\* issued, and the response is ended.
C5_HandlerFailureIsServerError ==
  Failed("execute") =>
     /\ res.wireStatus >= 500
     /\ ModelFrames = {}
     /\ streamReqs = <<>>
     /\ res.ended

\* C6: on the fallback path, when the stream fails after k of N chunks
\* (0 < k < N) the response holds exactly those k chunk frames in order, no
\* [DONE] sentinel, and is ended.
C6_FallbackTruncatedAndClosed ==
  ( /\ Succeeded("stream")
    /\ streamReqs[1].client = "capi"
    /\ pc # "fallbackStream"
    /\ 0 < stream.failAt
    /\ stream.failAt < Len(stream.chunks) ) =>
     /\ res.body = <<createAckEvent>> \o ExpectedFrames(stream.failAt)
     /\ res.ended

\* C7: when the selector offers several tool calls only the first is acted
\* upon: at most one handler invocation, made with the first call's name and
\* parsed arguments, and every streaming request is the one the first call
\* alone determines.
C7_OnlyFirstToolCallHonoured ==
  (SelectorReturned /\ Len(ToolCalls(toolCaller[1])) >= 2) =>
     /\ KnownToolSelected =>
          execCalls = << [ name |-> FirstToolCall.function[1].name,
                           messages |-> req.messages,
                           args |-> JSONParse(FirstToolCall.function[1].arguments) ] >>
     /\ ~KnownToolSelected => execCalls = <<>>
     /\ Len(streamReqs) <= 1
     /\ streamReqs # <<>> =>
          IF FirstToolCall.function = <<>>
          THEN streamReqs[1] = [client |-> "capi", model |-> "gpt-4", messages |-> req.messages]
          ELSE streamReqs[1] \in
                 { [client |-> "inference", model |-> r.model, messages |-> r.messages] :
                     r \in { h \in HandlerResults : h.ok } }

C7_Witness ==
  /\ SelectorReturned
  /\ Len(ToolCalls(toolCaller[1])) = 2
  /\ KnownToolSelected
  /\ FirstToolCall.function[1].name = "describe_model"
  /\ ToolCalls(toolCaller[1])[2].function[1].name = "execute_model"
  /\ pc = "inferenceStream"

\* C8: a request whose signature verification throws or reports it invalid is
\* answered 401 and ended with no acknowledgement frame, and no catalog fetch,
\* selector call, capability execution or streaming call is made.
C8_UnverifiedRequestRejected ==
  verifyResult \in {"threw", "invalid"} =>
     /\ pc = "done"
     /\ res.wireStatus = 401
     /\ res.ended
     /\ res.body = << <<"Unauthorized">> >>
     /\ res.lateOps = 0
     /\ issued = <<>>
     /\ completed = <<>>
     /\ selectorReqs = <<>>
     /\ execCalls = <<>>
     /\ streamReqs = <<>>

C8_Witness ==
  /\ verifyResult = "invalid"
  /\ req.token # Undefined
  /\ req.messages # <<>>
  /\ res.ended

ToolSelected ==
  /\ ToolCalls(toolCaller[1]) # <<>>
  /\ FirstToolCall.function # <<>>

\* C9: every request that passes verification and whose selector call and, if
\* a tool was selected, capability execution succeed issues exactly one
\* streaming completion request.
C9_ExactlyOneStreamingRequest ==
  ( /\ verifyResult = "valid"
    /\ Succeeded("selector")
    /\ ToolSelected => Succeeded("execute") ) =>
     Len(streamReqs) = 1

\* C10: the selector request's message list is one synthesized system message
\* followed by the inbound conversation in order, each message once.
C10_SelectorMessagesSingleInclusion ==
  \A i \in DOMAIN selectorReqs :
     /\ Len(selectorReqs[i].messages) = 1 + Len(req.messages)
     /\ selectorReqs[i].messages[1].role = "system"
     /\ SubSeq(selectorReqs[i].messages, 2, Len(selectorReqs[i].messages)) = req.messages

FunctionOffered ==
  /\ SelectorReturned
  /\ ToolCalls(toolCaller[1]) # <<>>
  /\ FirstToolCall.function # <<>>

\* C11: when the first tool call's raw arguments do not parse, the response
\* ends with an error status and is closed, no capability handler is invoked
\* and no streaming request is issued.
C11_MalformedArgumentsEndWithError ==
  (FunctionOffered /\ ~JSONParse(FirstToolCall.function[1].arguments).ok) =>
     /\ res.ended
     /\ res.wireStatus >= 400
     /\ execCalls = <<>>
     /\ streamReqs = <<>>

\* C12: when the chosen capability name is not registered, no handler is
\* invoked, no streaming request is issued, no chunk or [DONE] frame is
\* written, and the response is ended as a server error.
C12_UnknownCapabilityEndsWithServerError ==
  ( /\ FunctionOffered
    /\ \A i \in DOMAIN functions : functions[i] # FirstToolCall.function[1].name ) =>
     /\ execCalls = <<>>
     /\ streamReqs = <<>>
     /\ ModelFrames = {}
     /\ res.ended
     /\ res.wireStatus >= 500

ExecuteModelSelected ==
  /\ FunctionOffered
  /\ FirstToolCall.function[1].name = "execute_model"
  /\ JSONParse(FirstToolCall.function[1].arguments).ok

\* C13: for every (model, instruction) and every conversation, execute_model
\* never fails and returns the model as given with exactly two messages: the
\* fixed identity system message, then a user message carrying the instruction
\* verbatim; nothing of the conversation or the catalog enters the result.
C13_ExecuteModelIsPureRewrite ==
  ExecuteModelSelected =>
     /\ ~Failed("execute")
     /\ Succeeded("execute") =>
          /\ functionCallRes.ok
          /\ functionCallRes.model = JSONParse(FirstToolCall.function[1].arguments).model
          /\ Len(functionCallRes.messages) = 2
          /\ functionCallRes.messages[1] =
               [ role |-> "system",
                 content |-> <<"Begin your response by telling the user the name of your language model.">> ]
          /\ functionCallRes.messages[2] =
               [ role |-> "user",
                 content |-> <<JSONParse(FirstToolCall.function[1].arguments).instruction>> ]

C13_Witness ==
  /\ ExecuteModelSelected
  /\ Succeeded("execute")
  /\ functionCallRes.model = "no-such-model"
  /\ models # <<>>
  /\ Len(req.messages) = 2

StreamFailedBeforeFirstChunk ==
  \/ Failed("stream")
  \/ /\ Succeeded("stream")
     /\ stream.failAt = 0
     /\ pc \notin {"fallbackStream", "inferenceStream"}

\* C14: when the streaming request fails before any chunk frame was written,
\* on either path, the caller observes a server error status, no chunk or
\* [DONE] frame is written, and the response is ended.
C14_EarlyStreamFailureIsServerError ==
  StreamFailedBeforeFirstChunk =>
     /\ res.wireStatus >= 500
     /\ ModelFrames = {}
     /\ res.ended

StreamFailedOnCapabilityPath ==
  /\ Succeeded("stream")
  /\ streamReqs[1].client = "inference"
  /\ stream.failAt # NoFail
  /\ pc # "inferenceStream"

\* C15: on the capability path, when the stream fails after k chunks were
\* forwarded the response holds the acknowledgement followed by exactly those k
\* whole chunk frames in order, no [DONE] sentinel, and is ended.
C15_CapabilityStreamTruncatedAndClosed ==
  StreamFailedOnCapabilityPath =>
     /\ res.body = <<createAckEvent>> \o ExpectedFrames(stream.failAt)
     /\ \A i \in DOMAIN res.body : res.body[i] # Sentinel
     /\ res.ended

C15_Witness ==
  /\ StreamFailedOnCapabilityPath
  /\ stream.chunks = <<"c1", "c2">>
  /\ stream.failAt = 1
  /\ res.ended

\* C16: once the response has been ended nothing more is done to it, on every
\* path: no operation is ever performed on an ended response, and an ended
\* response never changes again.
C16_NothingAfterClose ==
  /\ [](res.lateOps = 0)
  /\ [][res.ended => res' = res]_vars

C16_Witness ==
  /\ res.ended
  /\ Failed("execute")
  /\ pc = "done"

CallOrder == << "catalog", "selector", "execute", "stream" >>

Rank(call) == CHOOSE i \in DOMAIN CallOrder : CallOrder[i] = call

\* C17: no remote call is retried and every failure is terminal: the catalog
\* fetch, the selector call, the capability execution and the streaming call
\* are each issued at most once, in that order, each only after the previous
\* one completed successfully, and none after a failure.
C17_RemoteCallsSequentialNoRetry ==
  /\ \A i, j \in DOMAIN issued : i < j => Rank(issued[i]) < Rank(issued[j])
  /\ Len(completed) <= Len(issued)
  /\ Len(issued) <= Len(completed) + 1
  /\ \A i \in DOMAIN completed : completed[i].call = issued[i]
  /\ \A i \in DOMAIN issued : i > 1 => completed[i - 1].ok
  /\ \A i \in DOMAIN completed : ~completed[i].ok => Len(issued) = i

C17_Witness ==
  /\ issued = << "catalog", "selector", "execute", "stream" >>
  /\ Failed("stream")
  /\ pc = "done"

ShapeOfNoToolCall ==
  IF toolCaller[1].choices = <<>> THEN "no choice"
  ELSE IF toolCaller[1].choices[1].message = <<>> THEN "no message"
  ELSE IF ~toolCaller[1].choices[1].message[1].has_tool_calls THEN "tool_calls absent"
  ELSE IF toolCaller[1].choices[1].message[1].tool_calls = <<>> THEN "tool_calls empty"
  ELSE "tool calls offered"

\* C18: a selector response that offers zero tool calls takes the fallback path
\* with the original conversation whichever its shape: no choice, no message,
\* tool-call list absent, tool-call list empty.
C18_EveryZeroToolCallShapeFallsBack ==
  ( /\ SelectorReturned
    /\ ShapeOfNoToolCall \in {"no choice", "no message", "tool_calls absent", "tool_calls empty"} ) =>
     /\ pc \in {"fallbackCreate", "fallbackStream", "done", "unhandled"}
     /\ Len(streamReqs) = 1
     /\ streamReqs[1].client = "capi"
     /\ streamReqs[1].messages = req.messages

HandlerFinished == pc \in {"done", "unhandled"}

\* C19: every acknowledged request has its response ended by the time the
\* handler has run to its end, whichever stage failed.
C19_AcknowledgedRequestIsClosed ==
  (HandlerFinished /\ AckFrames # {}) => res.ended

\* C20: a request that passes signature verification but carries no access
\* token is answered 400 and ended before the acknowledgement is written and
\* before any catalog, selector, capability or streaming call.
C20_MissingTokenRejected ==
  (verifyResult = "valid" /\ req.token = "undefined") =>
     /\ pc = "done"
     /\ res.wireStatus = 400
     /\ res.ended
     /\ res.body = <<>>
     /\ res.lateOps = 0
     /\ issued = <<>>
     /\ completed = <<>>
     /\ selectorReqs = <<>>
     /\ execCalls = <<>>
     /\ streamReqs = <<>>

C20_Witness ==
  /\ verifyResult = "valid"
  /\ req.token = "undefined"
  /\ req.messages # <<>>
  /\ res.ended
====
